---- MODULE Spec2Model ----
(***************************************************************************)
(* ExpiringAtomicFilter (src/src/lib.rs): a ring of backend filters, one   *)
(* per time bucket, with a write slot chosen from the wall clock and bulk  *)
(* expiration of the slot that follows the write slot.                     *)
(*                                                                         *)
(* Time is in whole seconds, as now_timestamp() returns it.  A backend     *)
(* filter (the external atomic-cuckoo-filter crate) is a bag of items with *)
(* a capacity; its false positives are not modelled.                       *)
(***************************************************************************)
EXTENDS Integers, Sequences, FiniteSets, TLC

VARIABLES
    builder,   \* ExpiringAtomicFilterBuilder: the Option fields the setters fill
    result,    \* outcome of build: "unbuilt", "Ok", "ValidationError", "panic"
    self,      \* the filter's scalar fields: capacity, ttl, expiration_period, created
    slots,     \* the filter's ring: slot index (0-based) -> bag of items
    clock,     \* SystemTime::now() in seconds since the epoch
    last,      \* the last call made on the filter, its timestamp and what it returned
    expired_at, \* when the external scheduler last called expire
    born,      \* when the single occurrence of Observed was inserted, or Untracked
    renewed,   \* when Observed was last reinserted by insert_unique, Untracked, or NotFollowed
    expiring,  \* a caller inside expire: where it is, the slot it selected, what it counted
    inserting  \* a caller inside insert or insert_unique: where it is, the slot it selected,
               \* and whether Observed went in while the caller inside expire was at work

vars == <<builder, result, self, slots, clock, expired_at, last, born, renewed,
          expiring, inserting>>

----------------------------------------------------------------------------
(* Bounds of the model *)

MaxCapacity == 4     \* explicit capacities are 0..MaxCapacity
MaxTtl == 3          \* short explicit ttl values are 0..MaxTtl
MaxPeriod == 3       \* short explicit expiration periods are 0..MaxPeriod
MaxLen == 2          \* inserts stop once the ring holds this many items
MaxCycles == 2       \* the clock runs for this many buffer cycles after creation
Margin == 1          \* in long segments the clock visits the seconds this close to a boundary
StartTime == 7       \* the clock when the builder is created

Items == {"item1", "item2"}
Observed == "item1"   \* the item whose lifetime is followed
RaceItems == {Observed}   \* what the caller that races with expire inserts
NoItem == "-"
Untracked == 0 - 1
NotFollowed == 0 - 2   \* reinsertions are not followed in this specification

(* Program constants: the builder's defaults *)
DefaultCapacity == 1048576
DefaultTtl == 86400
DefaultExpirationPeriod == 3600

----------------------------------------------------------------------------
(* Option<T> of the derived builder: None is <<>>, Some(x) is <<x>> *)

None == <<>>
Some(x) == <<x>>
IsSome(o) == o # None
Unwrap(o) == o[1]
UnwrapOr(o, d) == IF IsSome(o) THEN Unwrap(o) ELSE d

(* u64::is_multiple_of: with rhs = 0 it is true only of 0 *)
is_multiple_of(a, b) == IF b = 0 THEN a = 0 ELSE (a % b) = 0

(* u64::next_multiple_of: the smallest multiple of b that is >= a (b > 0) *)
next_multiple_of(a, b) == IF (a % b) = 0 THEN a ELSE a + (b - (a % b))

----------------------------------------------------------------------------
(* The backend filter: a bag of items, item -> number of occurrences *)

EmptyFilter == [i \in Items |-> 0]

RECURSIVE SumOver(_, _)
SumOver(f, S) ==
    IF S = {} THEN 0
    ELSE LET x == CHOOSE y \in S : TRUE IN f[x] + SumOver(f, S \ {x})

filter_len(f) == SumOver(f, Items)
filter_contains(f, item) == f[item] > 0
filter_count(f, item) == f[item]
filter_full(f, cap) == filter_len(f) >= cap
filter_add(f, item) == [f EXCEPT ![item] = @ + 1]
filter_remove(f, item) == [f EXCEPT ![item] = @ - 1]
filter_clear(f) == EmptyFilter

----------------------------------------------------------------------------
(* ExpiringAtomicFilterBuilder *)

(* validate: only a ttl and an expiration_period that were both set are compared *)
validate(b) ==
    IF IsSome(b.ttl) /\ IsSome(b.expiration_period)
       /\ ~is_multiple_of(Unwrap(b.ttl), Unwrap(b.expiration_period))
    THEN "ValidationError"
    ELSE "Ok"

(* base_build: the fields of the filter, defaults filled in; created and slots skipped *)
base_build(b) ==
    [capacity          |-> UnwrapOr(b.capacity, DefaultCapacity),
     ttl               |-> UnwrapOr(b.ttl, DefaultTtl),
     expiration_period |-> UnwrapOr(b.expiration_period, DefaultExpirationPeriod),
     created           |-> 0]

NoFilter == [capacity |-> 0, ttl |-> 0, expiration_period |-> 0, created |-> 0]
NoSlots == <<>>

(* build's slot count, 2 + ttl / expiration_period (expiration_period > 0) *)
build_slot_count(f) == 2 + (f.ttl \div f.expiration_period)

(* build's capacity of one backend filter (slot_count > 2) *)
unexpired_slot_capacity(f) == f.capacity \div (build_slot_count(f) - 2)

(* build: what it returns for builder b at time now *)
build_outcome(b, now) ==
    LET f == [base_build(b) EXCEPT !.created = now] IN
    IF validate(b) # "Ok"
    THEN [result |-> "ValidationError", self |-> NoFilter, slots |-> NoSlots]
    ELSE IF f.expiration_period = 0
    THEN [result |-> "panic", self |-> NoFilter, slots |-> NoSlots]
    ELSE IF build_slot_count(f) - 2 = 0
    THEN [result |-> "panic", self |-> NoFilter, slots |-> NoSlots]
    ELSE IF unexpired_slot_capacity(f) = 0
    THEN [result |-> "ValidationError", self |-> NoFilter, slots |-> NoSlots]
    ELSE [result |-> "Ok", self |-> f,
          slots |-> [i \in 0..(build_slot_count(f) - 1) |-> EmptyFilter]]

----------------------------------------------------------------------------
(* ExpiringAtomicFilter: pure parts, read from the current state *)

slot_count == Cardinality(DOMAIN slots)

ttl_segment_duration == self.ttl \div (slot_count - 2)

buffer_duration == ttl_segment_duration * slot_count

(* write_slot as it would be without the step back to the start of the bucket *)
write_slot_rounding_up(now) ==
    LET now_buffer_time == (now - self.created) % buffer_duration
    IN next_multiple_of(now_buffer_time, ttl_segment_duration) \div ttl_segment_duration

(* write_slot as it would be with the buffer's phase taken from the epoch, not created *)
write_slot_from_epoch(now) ==
    LET now_buffer_time == now % buffer_duration
        next == next_multiple_of(now_buffer_time, ttl_segment_duration)
        write_slot_start ==
            IF ~is_multiple_of(now_buffer_time, ttl_segment_duration)
            THEN next - ttl_segment_duration
            ELSE next
    IN write_slot_start \div ttl_segment_duration

write_slot(now) ==
    LET now_buffer_time == (now - self.created) % buffer_duration
        next == next_multiple_of(now_buffer_time, ttl_segment_duration)
        write_slot_start ==
            IF ~is_multiple_of(now_buffer_time, ttl_segment_duration)
            THEN next - ttl_segment_duration
            ELSE next
    IN write_slot_start \div ttl_segment_duration

(* expire_slot as it would be if the write slot itself were taken *)
expire_slot_is_write_slot(now) == write_slot(now)

expire_slot(now) == (1 + write_slot(now)) % slot_count

(* slots[0].capacity(): every backend filter was built with the same capacity *)
slot_capacity == unexpired_slot_capacity(self)

contains_in(sl, item) == \E i \in DOMAIN sl : filter_contains(sl[i], item)

RECURSIVE len_upto(_, _)
len_upto(sl, n) == IF n = 0 THEN 0 ELSE filter_len(sl[n - 1]) + len_upto(sl, n - 1)

RECURSIVE count_upto(_, _, _)
count_upto(sl, item, n) ==
    IF n = 0 THEN 0 ELSE filter_count(sl[n - 1], item) + count_upto(sl, item, n - 1)

contains(item) == contains_in(slots, item)
len == len_upto(slots, slot_count)
count(item) == count_upto(slots, item, slot_count)
is_empty == len = 0
capacity == slot_capacity * (slot_count - 1)

(* insert, insert_unique: the backend filter of slot i has no room for one more item *)
slot_full_when_ring_full(i) == len >= capacity

slot_full(i) == filter_full(slots[i], slot_capacity)

(* remove as it would be if it took the last slot, in ring order, that contains the item *)
remove_slot_last(item) ==
    CHOOSE i \in DOMAIN slots :
        /\ filter_contains(slots[i], item)
        /\ \A j \in DOMAIN slots : j > i => ~filter_contains(slots[j], item)

(* remove: the first slot, in ring order, that contains the item *)
remove_slot(item) ==
    CHOOSE i \in DOMAIN slots :
        /\ filter_contains(slots[i], item)
        /\ \A j \in DOMAIN slots : j < i => ~filter_contains(slots[j], item)

(* remove as it would be without the contains check: the backend filter of the first *)
(* slot that holds anything gives up an item, whichever it holds                     *)
remove_slots_unchecked(item) ==
    IF contains(item)
    THEN [slots EXCEPT ![remove_slot(item)] = filter_remove(@, item)]
    ELSE IF len = 0 THEN slots
    ELSE LET i == CHOOSE k \in DOMAIN slots :
                      /\ filter_len(slots[k]) > 0
                      /\ \A j \in DOMAIN slots : j < k => filter_len(slots[j]) = 0
             other == CHOOSE x \in Items : filter_contains(slots[i], x)
         IN [slots EXCEPT ![i] = filter_remove(@, other)]

(* remove: the ring it leaves *)
remove_slots(item) ==
    IF contains(item)
    THEN [slots EXCEPT ![remove_slot(item)] = filter_remove(@, item)]
    ELSE slots

(* expire_as_of: the count it returns and the ring it leaves *)
expire_item_count(now) == filter_len(slots[expire_slot(now)])

(* expire_as_of as it would be if a slot holding a single item were left alone *)
expire_slots_above_one(now) ==
    IF expire_item_count(now) > 1
    THEN [slots EXCEPT ![expire_slot(now)] = filter_clear(@)]
    ELSE slots

(* expire_as_of as it would be if it cleared the write slot and counted the next one *)
expire_slots_clearing_write_slot(now) ==
    IF expire_item_count(now) > 0
    THEN [slots EXCEPT ![write_slot(now)] = filter_clear(@)]
    ELSE slots

(* expire_as_of as it would be if only a full slot were cleared *)
expire_slots_when_full(now) ==
    IF expire_item_count(now) >= slot_capacity
    THEN [slots EXCEPT ![expire_slot(now)] = filter_clear(@)]
    ELSE slots

expire_slots(now) ==
    IF expire_item_count(now) > 0
    THEN [slots EXCEPT ![expire_slot(now)] = filter_clear(@)]
    ELSE slots

----------------------------------------------------------------------------
(* The clock.  It visits every second of a short segment and, of a long    *)
(* one, the seconds within Margin of a segment boundary.                   *)

Horizon == MaxCycles * buffer_duration

IsInstant(elapsed) ==
    LET o == elapsed % ttl_segment_duration IN
    o <= Margin \/ o >= ttl_segment_duration - Margin

(* the instant after, and the one before, the one that is `elapsed` seconds after created *)
InstantAfter(elapsed) ==
    IF IsInstant(elapsed + 1) THEN elapsed + 1
    ELSE elapsed - (elapsed % ttl_segment_duration) + (ttl_segment_duration - Margin)

InstantBefore(elapsed) ==
    IF IsInstant(elapsed - 1) THEN elapsed - 1
    ELSE elapsed - (elapsed % ttl_segment_duration) + Margin

Built == result = "Ok"

(* the bound on inserts: the ring holds fewer than MaxLen items *)
Room == len < MaxLen

(* the time of the reinsertion that is followed, where reinsertions are followed *)
Renewal(t) == IF renewed = NotFollowed THEN NotFollowed ELSE t

(* The record of a call: what it returned, whether the call before it was the same   *)
(* call at the same timestamp, and what that one returned.                           *)
Call(op, item, ret) ==
    LET again == last.op = op /\ last.item = item IN
    [op |-> op, item |-> item, ret |-> ret, again |-> again,
     first |-> IF again THEN last.ret ELSE 0]

NoCall(op) == [op |-> op, item |-> NoItem, ret |-> 0, again |-> FALSE, first |-> 0]

----------------------------------------------------------------------------
(* Builder inputs *)

ShortBuilders ==
    [capacity : {Some(MaxCapacity)},
     ttl : {Some(t) : t \in 0..MaxTtl},
     expiration_period : {Some(p) : p \in 0..MaxPeriod}]

(* a ttl of some hours and a few seconds, the expiration period left at its default *)
LongTtls == {k * DefaultExpirationPeriod + (k - 1) : k \in 1..MaxTtl}

LongBuilders ==
    [capacity : {Some(MaxCapacity)},
     ttl : {Some(t) : t \in LongTtls},
     expiration_period : {None}]

(* every way of setting, or leaving at its default, each of the three fields *)
AllBuilders ==
    [capacity : {None} \cup {Some(c) : c \in 0..MaxCapacity},
     ttl : {None} \cup {Some(t) : t \in (0..MaxTtl) \cup LongTtls
                                      \cup {t + 1 : t \in LongTtls}},
     expiration_period :
        {None} \cup {Some(p) : p \in (0..MaxPeriod)
                                     \cup {DefaultTtl \div k : k \in 1..MaxPeriod}
                                     \cup {(DefaultTtl \div k) - 1 : k \in 1..MaxPeriod}}]

(* no caller is inside expire, none inside insert *)
IdleExpire == [pc |-> "idle", slot |-> 0, item_count |-> 0]
IdleInsert == [pc |-> "idle", slot |-> 0, item |-> NoItem, unique |-> FALSE,
               now |-> 0, raced |-> FALSE]

Fresh ==
    /\ result = "unbuilt"
    /\ self = NoFilter
    /\ slots = NoSlots
    /\ clock = StartTime
    /\ expired_at = StartTime - 1
    /\ last = NoCall("new")
    /\ born = Untracked
    /\ expiring = IdleExpire
    /\ inserting = IdleInsert

Init == builder \in ShortBuilders \cup LongBuilders /\ Fresh /\ renewed = NotFollowed

InitBuild == builder \in AllBuilders /\ Fresh /\ renewed = NotFollowed

(* the same rings, with the reinsertions of Observed followed *)
InitRenew == builder \in ShortBuilders \cup LongBuilders /\ Fresh /\ renewed = Untracked

----------------------------------------------------------------------------
(* Operations *)

build ==
    /\ result = "unbuilt"
    /\ LET out == build_outcome(builder, clock) IN
        /\ result' = out.result
        /\ self' = out.self
        /\ slots' = out.slots
    /\ last' = NoCall("build")
    /\ UNCHANGED <<builder, clock, expired_at, born, renewed, expiring, inserting>>

(* The timestamp of the next call changes: now_timestamp() for insert, insert_unique *)
(* and expire, the caller's argument for expire_as_of and insert_unique_as_of; the   *)
(* only precondition on it is now >= created.                                        *)
tick ==
    /\ Built
    /\ LET elapsed == clock - self.created IN
        \/ elapsed < Horizon /\ clock' = self.created + InstantAfter(elapsed)
        \/ elapsed > 0 /\ clock' = self.created + InstantBefore(elapsed)
    /\ last' = NoCall("tick")
    /\ UNCHANGED <<builder, result, self, slots, expired_at, born, renewed,
                   expiring, inserting>>

insert(item) ==
    /\ Built
    /\ LET ws == write_slot(clock) IN
        IF slot_full(ws)
        THEN /\ last' = Call("insert", item, "NotEnoughSpace")
             /\ UNCHANGED <<slots, born>>
        ELSE /\ slots' = [slots EXCEPT ![ws] = filter_add(@, item)]
             /\ born' = IF item # Observed THEN born
                      ELSE IF contains(item) THEN Untracked ELSE clock
             /\ last' = Call("insert", item, "Ok")
    /\ UNCHANGED <<builder, result, self, clock, expired_at, renewed, expiring, inserting>>

insert_unique_as_of(item, now) ==
    /\ Built
    /\ LET ws == write_slot(now) IN
        IF filter_contains(slots[ws], item)
        THEN /\ last' = Call("insert_unique", item, "Ok(false)")
             /\ UNCHANGED <<slots, born, renewed>>
        ELSE IF slot_full(ws)
        THEN /\ last' = Call("insert_unique", item, "NotEnoughSpace")
             /\ UNCHANGED <<slots, born, renewed>>
        ELSE /\ slots' = [slots EXCEPT ![ws] = filter_add(@, item)]
             /\ born' = IF item # Observed THEN born
                      ELSE IF contains(item) THEN Untracked ELSE now
             /\ renewed' = IF item = Observed /\ contains(item) THEN Renewal(now) ELSE renewed
             /\ last' = Call("insert_unique", item, "Ok(true)")
    /\ UNCHANGED <<builder, result, self, clock, expired_at, expiring, inserting>>

insert_unique(item) == insert_unique_as_of(item, clock)

remove(item) ==
    /\ Built
    /\ slots' = remove_slots(item)
    /\ IF contains(item)
       THEN /\ born' = IF item = Observed THEN Untracked ELSE born
            /\ renewed' = IF item = Observed THEN Renewal(Untracked) ELSE renewed
            /\ last' = Call("remove", item, "true")
       ELSE /\ last' = Call("remove", item, "false")
            /\ UNCHANGED <<born, renewed>>
    /\ UNCHANGED <<builder, result, self, clock, expired_at, expiring, inserting>>

clear ==
    /\ Built
    /\ slots' = [i \in DOMAIN slots |-> filter_clear(slots[i])]
    /\ born' = Untracked
    /\ renewed' = Renewal(Untracked)
    /\ last' = Call("clear", NoItem, 0)
    /\ UNCHANGED <<builder, result, self, clock, expired_at, expiring, inserting>>

expire_as_of(now) ==
    /\ Built
    /\ slots' = expire_slots(now)
    /\ born' = IF contains_in(expire_slots(now), Observed) THEN born ELSE Untracked
    /\ renewed' = IF renewed >= 0
                      /\ ~filter_contains(expire_slots(now)[write_slot(renewed)], Observed)
                   THEN Untracked ELSE renewed
    /\ last' = Call("expire_as_of", NoItem, expire_item_count(now))
    /\ UNCHANGED <<builder, result, self, clock, expiring, inserting>>

expire == expire_as_of(clock) /\ UNCHANGED expired_at

Next ==
    \/ build
    \/ tick
    \/ \E item \in Items : Room /\ insert(item)
    \/ \E item \in Items : Room /\ insert_unique(item)
    \/ \E item \in Items : remove(item)
    \/ clear
    \/ expire

Spec == Init /\ [][Next]_vars

(* The ring with the reinsertions of Observed followed *)
SpecRenew == InitRenew /\ [][Next]_vars

(* Construction alone, over every builder *)
SpecBuild == InitBuild /\ [][build]_vars

----------------------------------------------------------------------------
(* An external scheduler that calls expire at least once in every interval of       *)
(* expiration_period seconds; the first interval begins when the ring is created    *)
(* (expired_at starts one second before it).  The clock only moves forward.         *)

scheduled_expire == expire_as_of(clock) /\ expired_at' = clock

scheduled_tick ==
    /\ Built
    /\ LET elapsed == clock - self.created IN
        /\ elapsed < Horizon
        /\ clock' = self.created + InstantAfter(elapsed)
    /\ clock' - expired_at <= self.expiration_period
    /\ last' = NoCall("tick")
    /\ UNCHANGED <<builder, result, self, slots, expired_at, born, renewed,
                   expiring, inserting>>

NextSched ==
    \/ build
    \/ scheduled_tick
    \/ scheduled_expire
    \/ \E item \in Items : Room /\ insert(item)
    \/ \E item \in Items : Room /\ insert_unique(item)
    \/ \E item \in Items : remove(item)
    \/ clear

SpecSched == Init /\ [][NextSched]_vars

(* Small rings under the same scheduler, filled as far as their backend filters take *)
FillBuilders ==
    [capacity : {Some(c) : c \in 1..MaxLen},
     ttl : {Some(t) : t \in 1..MaxTtl},
     expiration_period : {Some(p) : p \in 1..MaxPeriod}]

InitFill == builder \in FillBuilders /\ Fresh /\ renewed = NotFollowed

NextFill ==
    \/ build
    \/ scheduled_tick
    \/ scheduled_expire
    \/ \E item \in Items : insert(item)

SpecFill == InitFill /\ [][NextFill]_vars

----------------------------------------------------------------------------
(* Concurrent callers.  One caller is inside insert or insert_unique and one inside  *)
(* expire; each call is a sequence of steps, the selection of its slot and the calls  *)
(* on the backend filter, which are atomic.  The clock moves forward between steps.   *)

clock_advance ==
    /\ Built
    /\ LET elapsed == clock - self.created IN
        /\ elapsed < Horizon
        /\ clock' = self.created + InstantAfter(elapsed)
    /\ last' = NoCall("tick")
    /\ UNCHANGED <<builder, result, self, slots, expired_at, born, renewed,
                   expiring, inserting>>

(* insert, insert_unique: let write_slot = self.write_slot(now_timestamp()) *)
insert_write_slot(item, unique) ==
    /\ Built
    /\ inserting.pc = "idle"
    /\ Room
    /\ inserting' = [pc |-> "selected", slot |-> write_slot(clock), item |-> item,
                     unique |-> unique, now |-> clock, raced |-> inserting.raced]
    /\ UNCHANGED <<builder, result, self, slots, clock, expired_at, last, born, renewed,
                   expiring>>

(* insert, insert_unique: self.slots[write_slot].insert(item) or .insert_unique(item) *)
insert_backend ==
    /\ inserting.pc = "selected"
    /\ LET ws == inserting.slot
           item == inserting.item
           op == IF inserting.unique THEN "insert_unique" ELSE "insert"
           overlaps == expiring.pc \in {"selected", "counted"} /\ expiring.slot = ws
       IN IF inserting.unique /\ filter_contains(slots[ws], item)
          THEN /\ last' = Call(op, item, "Ok(false)")
               /\ inserting' = [IdleInsert EXCEPT !.raced = inserting.raced]
               /\ UNCHANGED <<slots, born>>
          ELSE IF slot_full(ws)
          THEN /\ last' = Call(op, item, "NotEnoughSpace")
               /\ inserting' = [IdleInsert EXCEPT !.raced = inserting.raced]
               /\ UNCHANGED <<slots, born>>
          ELSE /\ slots' = [slots EXCEPT ![ws] = filter_add(@, item)]
               /\ born' = IF item # Observed THEN born
                          ELSE IF contains(item) THEN Untracked ELSE inserting.now
               /\ inserting' = [IdleInsert EXCEPT !.raced =
                                   IF item # Observed THEN inserting.raced
                                   ELSE overlaps /\ ~contains(item)]
               /\ last' = Call(op, item, IF inserting.unique THEN "Ok(true)" ELSE "Ok")
    /\ UNCHANGED <<builder, result, self, clock, expired_at, renewed, expiring>>

(* expire: let expire_slot = (1 + self.write_slot(now_timestamp())) % self.slots.len() *)
expire_select ==
    /\ Built
    /\ expiring.pc = "idle"
    /\ expiring' = [pc |-> "selected", slot |-> expire_slot(clock), item_count |-> 0]
    /\ UNCHANGED <<builder, result, self, slots, clock, expired_at, last, born, renewed,
                   inserting>>

(* expire_as_of: let item_count = filter.len() *)
expire_len ==
    /\ expiring.pc = "selected"
    /\ expiring' = [expiring EXCEPT !.pc = "counted",
                                    !.item_count = filter_len(slots[expiring.slot])]
    /\ UNCHANGED <<builder, result, self, slots, clock, expired_at, last, born, renewed,
                   inserting>>

(* expire_as_of: if item_count > 0 { filter.clear() }; item_count *)
expire_clear ==
    /\ expiring.pc = "counted"
    /\ slots' = IF expiring.item_count > 0
                THEN [slots EXCEPT ![expiring.slot] = filter_clear(@)]
                ELSE slots
    /\ expiring' = IdleExpire
    /\ born' = IF contains_in(slots', Observed) THEN born ELSE Untracked
    /\ inserting' = [inserting EXCEPT !.raced = FALSE]
    /\ last' = Call("expire_as_of", NoItem, expiring.item_count)
    /\ UNCHANGED <<builder, result, self, clock, expired_at, renewed>>

NextRace ==
    \/ build
    \/ clock_advance
    \/ \E item \in RaceItems, unique \in BOOLEAN : insert_write_slot(item, unique)
    \/ insert_backend
    \/ expire_select
    \/ expire_len
    \/ expire_clear

SpecRace == Init /\ [][NextRace]_vars

----------------------------------------------------------------------------
(* Terms the properties are stated in *)

Elapsed == clock - self.created
ExpireStep == last'.op = "expire_as_of"
Expired == last.op = "expire_as_of"

(* the ring's ttl is a multiple of its expiration period, as validate means to ensure *)
Validated == is_multiple_of(self.ttl, self.expiration_period)

(* C1: an item inserted at t0 >= created and never removed or cleared is not         *)
(* discarded by any expire_as_of(t) with t0 <= t < t0 + ttl; contains(item) stays    *)
(* true, across a wraparound of the ring too.                                        *)
C1_ttl_lower_bound ==
    [][(ExpireStep /\ born # Untracked /\ born <= clock /\ clock < born + self.ttl)
          => contains_in(slots', Observed)]_vars

(* C1 on the rings whose ttl is a multiple of the expiration period *)
C1_on_validated_rings ==
    [][(ExpireStep /\ Validated /\ born # Untracked /\ born <= clock
          /\ clock < born + self.ttl)
          => contains_in(slots', Observed)]_vars

(* an expiration one second before the followed item reaches the age ttl, in the     *)
(* buffer cycle after the one it was inserted in, kept it                            *)
C1_witness ==
    /\ Built
    /\ Validated
    /\ Expired
    /\ born # Untracked
    /\ clock = born + self.ttl - 1
    /\ (clock - self.created) \div buffer_duration > (born - self.created) \div buffer_duration
    /\ contains(Observed)

(* C2: with expire called at non-decreasing times, at least once in every interval   *)
(* of expiration_period seconds, an item inserted at t0 and not reinserted is not    *)
(* present at any time later than t0 + ttl + expiration_period.                      *)
C2_ttl_upper_bound ==
    (Built /\ born # Untracked) => clock <= born + self.ttl + self.expiration_period

(* what the ring does guarantee under that schedule: the item is discarded before    *)
(* the end of the window that opens ttl + expiration_period after the start of its   *)
(* time bucket, so it lives less than ttl + 2 * expiration_period                    *)
C2_bucket_upper_bound ==
    (Built /\ Validated /\ born # Untracked) =>
        LET b == born - ((born - self.created) % self.expiration_period)
        IN clock < b + self.ttl + 2 * self.expiration_period

(* C3: for an item inserted at t0 in the time bucket that starts at b,               *)
(* expire_as_of(t) discards the item, and counts it, exactly when t - created lies   *)
(* in [b + ttl + expiration_period, b + ttl + 2 * expiration_period) modulo the      *)
(* buffer duration; the first such t is at most t0 + ttl + expiration_period, and    *)
(* one second before it expire_as_of keeps the item and, the ring holding nothing    *)
(* else, returns 0.                                                                  *)
InWindow(t) ==
    LET e0 == born - self.created
        b == e0 - (e0 % self.expiration_period)
        opens == b + self.ttl + self.expiration_period
    IN ((t - self.created - opens) % buffer_duration) < self.expiration_period

WindowOpens ==
    LET e0 == born - self.created
    IN self.created + (e0 - (e0 % self.expiration_period))
         + self.ttl + self.expiration_period

C3_step ==
    (ExpireStep /\ born # Untracked) =>
          /\ contains_in(slots', Observed) <=> ~InWindow(clock)
          /\ InWindow(clock) => last'.ret >= 1 /\ last'.ret = len - len_upto(slots', slot_count)
          /\ WindowOpens <= born + self.ttl + self.expiration_period
          /\ (born <= clock /\ clock < WindowOpens) => contains_in(slots', Observed)
          /\ clock = WindowOpens - 1 =>
               /\ contains_in(slots', Observed)
               /\ len = 1 => last'.ret = 0

C3_expiration_window == [][C3_step]_vars

(* C3 on the rings whose ttl is a multiple of the expiration period *)
C3_on_validated_rings == [][Validated => C3_step]_vars

(* the expiration at the second the window opens discarded the followed item, which  *)
(* was inserted in the last second of its bucket                                     *)
C3_witness ==
    /\ Built
    /\ Validated
    /\ Expired
    /\ last.ret = 1
    /\ born = Untracked
    /\ ~contains(Observed)
    /\ self.expiration_period > 1
    /\ ((clock - self.created) % self.expiration_period) = 0
    /\ clock - self.created > buffer_duration

(* C4: for every now >= created, write_slot(now) is                                  *)
(* floor(((now - created) mod (segment_duration * slot_count)) / segment_duration)   *)
(* with segment_duration = ttl / (slot_count - 2); it lies in 0..slot_count-1; a     *)
(* timestamp on a segment boundary selects the slot that begins there, the second    *)
(* before it still the slot that ends there; and write_slot has period               *)
(* buffer_duration.                                                                  *)
C4_write_slot_formula ==
    Built =>
        LET segment_duration == self.ttl \div (slot_count - 2)
            cycle == segment_duration * slot_count
            floor == (Elapsed % cycle) \div segment_duration
        IN /\ write_slot(clock) = floor
           /\ write_slot(clock) \in 0..(slot_count - 1)
           /\ (Elapsed % segment_duration) = 0 =>
                /\ write_slot(clock) * segment_duration = Elapsed % cycle
                /\ Elapsed > 0 =>
                     write_slot(clock - 1) = (write_slot(clock) + slot_count - 1) % slot_count
           /\ write_slot(clock + cycle) = write_slot(clock)
           /\ Elapsed >= cycle => write_slot(clock - cycle) = write_slot(clock)

(* an insert made on a segment boundary of the second buffer cycle went to the slot  *)
(* that begins there                                                                 *)
C4_witness ==
    /\ Built
    /\ last.op = "insert" /\ last.ret = "Ok"
    /\ Elapsed > buffer_duration
    /\ (Elapsed % ttl_segment_duration) = 0
    /\ ttl_segment_duration > 1
    /\ write_slot(clock) = slot_count - 1
    /\ filter_contains(slots[slot_count - 1], last.item)

(* C5: within one buffer cycle write_slot never decreases as time grows, and from    *)
(* one second to the next it stays or advances by exactly one modulo slot_count.     *)
SameCycle(t1, t2) ==
    (t1 - self.created) \div buffer_duration = (t2 - self.created) \div buffer_duration

BoundaryTimes ==
    {self.created + j * ttl_segment_duration + o :
        j \in 0..(MaxCycles * slot_count), o \in {-1, 0, 1}}

C5_write_slot_monotonic ==
    Built =>
        /\ \A t2 \in BoundaryTimes :
             (clock <= t2 /\ SameCycle(clock, t2)) => write_slot(t2) >= write_slot(clock)
        /\ \A t1 \in BoundaryTimes :
             (self.created <= t1 /\ t1 <= clock /\ SameCycle(t1, clock))
                => write_slot(t1) <= write_slot(clock)
        /\ \/ write_slot(clock + 1) = write_slot(clock)
           \/ write_slot(clock + 1) = (write_slot(clock) + 1) % slot_count
        /\ write_slot(clock + 1) # write_slot(clock)
             <=> ((Elapsed + 1) % ttl_segment_duration) = 0

(* the clock is in the last slot of the first cycle, one second before the wraparound *)
C5_witness ==
    /\ Built
    /\ Elapsed = buffer_duration - 1
    /\ write_slot(clock) = slot_count - 1
    /\ write_slot(clock + 1) = 0
    /\ last.op = "insert_unique" /\ last.ret = "Ok(true)"
    /\ filter_contains(slots[slot_count - 1], last.item)

(* C6: expire_as_of(now) returns the number of items that were in slot               *)
(* (write_slot(now) + 1) mod slot_count before the call, leaves that slot empty and  *)
(* decreases len() by exactly the value it returns.                                  *)
C6_expire_effect ==
    [][ExpireStep =>
          LET e == (write_slot(clock) + 1) % slot_count IN
          /\ last'.ret = filter_len(slots[e])
          /\ filter_len(slots'[e]) = 0
          /\ \A item \in Items : ~filter_contains(slots'[e], item)
          /\ len_upto(slots', slot_count) = len - last'.ret]_vars

(* an expiration discarded every item of a ring that held more than one *)
C6_witness ==
    /\ Built
    /\ Expired
    /\ last.ret >= 2
    /\ len = 0

(* C7: expire_as_of(now) leaves every slot other than                                *)
(* (write_slot(now) + 1) mod slot_count unchanged, the write slot of the same        *)
(* timestamp among them; the followed item is discarded by an expiration exactly     *)
(* when its own slot is the next-to-expire one, so an item whose slot is the write   *)
(* slot again after a missed window stays, the call returning 0 for it, until the    *)
(* window that comes one buffer cycle after the missed one.                          *)
C7_expire_frame ==
    [][ExpireStep =>
          LET e == (write_slot(clock) + 1) % slot_count IN
          /\ \A i \in DOMAIN slots : i # e => slots'[i] = slots[i]
          /\ e # write_slot(clock)
          /\ slots'[write_slot(clock)] = slots[write_slot(clock)]
          /\ DOMAIN slots' = DOMAIN slots
          /\ born # Untracked =>
               /\ contains_in(slots', Observed) <=> e # write_slot(born)
               /\ write_slot(clock) = write_slot(born) =>
                    /\ contains_in(slots', Observed)
                    /\ last'.ret = len - len_upto(slots', slot_count)
                    /\ last'.ret = filter_len(slots[e])
               /\ e = write_slot(born) <=>
                    (write_slot(clock + buffer_duration) + 1) % slot_count = write_slot(born)]_vars

(* the followed item's window was missed, its slot is the write slot again one       *)
(* buffer cycle after the insertion, and an expiration there returned 0 and kept it  *)
C7_witness ==
    /\ Built
    /\ Expired
    /\ last.ret = 0
    /\ born # Untracked
    /\ clock >= born + buffer_duration
    /\ write_slot(clock) = write_slot(born)
    /\ contains(Observed)
    /\ len = 1

(* C8: expire_as_of called twice in immediate succession with the same timestamp     *)
(* returns 0 from the second call, and the second call changes no slot.              *)
C8_expire_idempotent ==
    [][(Expired /\ ExpireStep /\ clock' = clock) =>
          (last'.ret = 0 /\ slots' = slots)]_vars

(* the second of two successive expirations returned 0 after the first returned more *)
C8_witness ==
    /\ Built
    /\ Expired
    /\ last.again
    /\ last.first >= 1
    /\ last.ret = 0

(* C9: build returns a ValidationError, and no ring, whenever the effective ttl is   *)
(* not a multiple of the effective expiration_period, whichever of the two was set   *)
(* or left at its default, and whenever the per-slot capacity                        *)
(* capacity / (ttl / expiration_period) is zero; so every ring that build returns    *)
(* has ttl % expiration_period = 0.                                                  *)
C9_build_validation ==
    result # "unbuilt" =>
        LET f == base_build(builder) IN
        /\ ~is_multiple_of(f.ttl, f.expiration_period) =>
             /\ result = "ValidationError"
             /\ slots = NoSlots
        /\ (/\ f.expiration_period > 0
            /\ f.ttl \div f.expiration_period > 0
            /\ f.capacity \div (f.ttl \div f.expiration_period) = 0) =>
             /\ result = "ValidationError"
             /\ slots = NoSlots
        /\ result = "Ok" => (self.ttl % self.expiration_period) = 0

(* C9 for the builders whose ttl and expiration_period were both set *)
C9_on_explicit_builders ==
    (IsSome(builder.ttl) /\ IsSome(builder.expiration_period)) => C9_build_validation

(* C10: every ring that build returns has slot_count = 2 + ttl / expiration_period   *)
(* and slot_count >= 3, the segment duration ttl / (slot_count - 2) that write_slot  *)
(* uses equals expiration_period, and slot_count, ttl, expiration_period and created *)
(* are what build made them after every later operation.                             *)
C10_fields_as_built ==
    Built =>
        /\ self = [base_build(builder) EXCEPT !.created = StartTime]
        /\ slot_count = 2 + (base_build(builder).ttl \div base_build(builder).expiration_period)

C10_ring_size ==
    Built =>
        /\ slot_count = 2 + (self.ttl \div self.expiration_period)
        /\ slot_count >= 3
        /\ ttl_segment_duration = self.expiration_period
        /\ C10_fields_as_built

(* C10 on the rings whose ttl is a multiple of the expiration period *)
C10_on_validated_rings == (Built /\ Validated) => C10_ring_size

(* C11: build ends by returning a complete ring or an error value for every          *)
(* capacity, ttl and expiration_period, 0 included, and on a built ring every         *)
(* operation called with now >= created completes: no division by zero, no slot      *)
(* index out of range.                                                                *)
C11_operations_complete ==
    Built =>
        /\ slot_count - 2 > 0
        /\ ttl_segment_duration > 0
        /\ buffer_duration > 0
        /\ write_slot(clock) \in DOMAIN slots
        /\ expire_slot(clock) \in DOMAIN slots
        /\ 0 \in DOMAIN slots

C11_no_abort ==
    /\ result # "panic"
    /\ result \in {"unbuilt", "Ok", "ValidationError"}
    /\ C11_operations_complete

(* C12: insert at time now changes only slot write_slot(now); it fails with          *)
(* NotEnoughSpace exactly when the backend filter of that slot is full, whatever room *)
(* the other slots have, and a failed insert changes no slot and so not len().        *)
C12_insert_routing ==
    [][(last'.op = "insert") =>
          LET ws == write_slot(clock)
              full == filter_len(slots[ws]) >= unexpired_slot_capacity(self)
          IN /\ (last'.ret = "NotEnoughSpace") <=> full
             /\ (last'.ret = "Ok") <=> ~full
             /\ full => /\ slots' = slots
                        /\ len_upto(slots', slot_count) = len
             /\ ~full => /\ slots'[ws] = filter_add(slots[ws], last'.item)
                         /\ len_upto(slots', slot_count) = len + 1
             /\ \A i \in DOMAIN slots : i # ws => slots'[i] = slots[i]]_vars

(* an insert failed for want of space in its slot while the ring held fewer items    *)
(* than its capacity, and another slot was empty                                     *)
C12_witness ==
    /\ Built
    /\ last.op = "insert"
    /\ last.ret = "NotEnoughSpace"
    /\ len < capacity
    /\ \E i \in DOMAIN slots : filter_len(slots[i]) = 0

(* C13: insert_unique at time t1 looks only at slot write_slot(t1): of its two        *)
(* answers it gives true exactly when the item is not in that slot, also when another *)
(* slot holds the item, and count(item) is then at least 2 (a call that fails with    *)
(* NotEnoughSpace gives neither answer, see C12); after such a reinsertion the item   *)
(* stays contained at every t with t1 <= t < t1 + ttl, also once expire_as_of has     *)
(* cleared the older slot that held it.                                               *)
C13_step ==
    /\ (last'.op = "insert_unique" /\ last'.ret \in {"Ok(true)", "Ok(false)"}) =>
          LET ws == write_slot(clock) IN
          /\ (last'.ret = "Ok(true)") <=> ~filter_contains(slots[ws], last'.item)
          /\ (last'.ret = "Ok(true)" /\ contains(last'.item)) =>
                count_upto(slots', last'.item, slot_count) >= 2
          /\ (last'.ret = "Ok(false)") => slots' = slots
    /\ (ExpireStep /\ renewed >= 0 /\ renewed <= clock /\ clock < renewed + self.ttl) =>
          contains_in(slots', Observed)

C13_on_validated_rings == [][Validated => C13_step]_vars

(* the older slot that held the reinserted item has been cleared, and an expiration   *)
(* one second before the reinsertion reaches the age ttl kept the item                *)
C13_witness ==
    /\ Built
    /\ Validated
    /\ Expired
    /\ renewed >= 0
    /\ clock = renewed + self.ttl - 1
    /\ count(Observed) = 1
    /\ contains(Observed)

(* C14: in every reachable state, if no slot contains the item then remove(item)     *)
(* returns false and leaves the contents, and so the len(), of every slot unchanged.  *)
C14_remove_absent ==
    [][(last'.op = "remove" /\ ~contains(last'.item)) =>
          /\ last'.ret = "false"
          /\ slots' = slots
          /\ \A i \in DOMAIN slots : filter_len(slots'[i]) = filter_len(slots[i])]_vars

(* remove of an item that no slot contained returned false on a ring that holds      *)
(* other items in two of its slots                                                   *)
C14_witness ==
    /\ Built
    /\ last.op = "remove"
    /\ last.ret = "false"
    /\ ~contains(last.item)
    /\ Cardinality({i \in DOMAIN slots : filter_len(slots[i]) > 0}) >= 2

(* C16: when some slot contains the item, remove(item) returns true, takes the item   *)
(* from the lowest-indexed slot that contains it and from no other slot, and lowers   *)
(* count(item) and len() by exactly 1, so that contains(item) stays true if a later   *)
(* slot held the item too.                                                            *)
C16_remove_present ==
    [][(last'.op = "remove" /\ contains(last'.item)) =>
          LET item == last'.item
              lowest == CHOOSE i \in DOMAIN slots :
                            /\ filter_contains(slots[i], item)
                            /\ \A j \in 0..(i - 1) : ~filter_contains(slots[j], item)
          IN /\ last'.ret = "true"
             /\ filter_count(slots'[lowest], item) = filter_count(slots[lowest], item) - 1
             /\ \A i \in DOMAIN slots : i # lowest => slots'[i] = slots[i]
             /\ \A other \in Items \ {item} : slots'[lowest][other] = slots[lowest][other]
             /\ count_upto(slots', item, slot_count) = count(item) - 1
             /\ len_upto(slots', slot_count) = len - 1
             /\ (\E i \in DOMAIN slots : i > lowest /\ filter_contains(slots[i], item))
                   => contains_in(slots', item)]_vars

(* remove returned true and the item is still contained, in a later slot              *)
C16_witness ==
    /\ Built
    /\ last.op = "remove"
    /\ last.ret = "true"
    /\ contains(last.item)
    /\ count(last.item) = 1
    /\ ~filter_contains(slots[0], last.item)

(* The step in which the caller inside expire clears its slot, or finds nothing to   *)
(* clear, and returns                                                                 *)
ClearStep == expiring.pc = "counted" /\ expiring'.pc = "idle"

(* C15: under every interleaving of insert / insert_unique and expire_as_of, each     *)
(* split into the selection of its slot and its backend steps, an insert that         *)
(* returned success is lost before the age ttl only if its backend insert went into   *)
(* the slot an expire_as_of call had selected, between that call's start and its      *)
(* clear; inserts into another slot, and inserts that overlap no expiration, are      *)
(* never lost.  The age counts from the timestamp the insert selected its slot by.    *)
C15_step ==
    (/\ ClearStep
     /\ born >= 0
     /\ contains(Observed)
     /\ ~contains_in(slots', Observed)
     /\ clock < born + self.ttl) => inserting.raced

C15_bounded_race == [][C15_step]_vars

(* C15 on the rings whose ttl is a multiple of the expiration period *)
C15_on_validated_rings == [][Validated => C15_step]_vars

(* the accepted race: the item went into the slot the caller inside expire had        *)
(* selected and counted, and that caller is about to clear it                         *)
C15_witness ==
    /\ Built
    /\ Validated
    /\ expiring.pc = "counted"
    /\ expiring.item_count > 0
    /\ inserting.raced
    /\ born >= 0
    /\ clock < born + self.ttl
    /\ filter_contains(slots[expiring.slot], Observed)

(* C17: with len() and clear() of expire_as_of separate steps, interleaved with       *)
(* inserts into the same slot by other callers, the value expire_as_of returns is the *)
(* number of items its clear discarded, and the slot is empty when the call returns.  *)
C17_step ==
    ClearStep =>
        /\ expiring.item_count =
              (IF expiring.item_count > 0 THEN filter_len(slots[expiring.slot]) ELSE 0)
        /\ last'.ret = len - len_upto(slots', slot_count)
        /\ filter_len(slots'[expiring.slot]) = 0

C17_expire_count == [][C17_step]_vars

(* C18: the clock may advance between the slot selection of expire and its clear, and *)
(* still the slot that is cleared is not the write slot at the moment clear runs, so  *)
(* an item inserted at the current time is never discarded by an expire call that     *)
(* began in the time bucket before.                                                   *)
C18_step ==
    ClearStep =>
        /\ expiring.slot # write_slot(clock)
        /\ (/\ born >= 0
            /\ born <= clock
            /\ clock - born < ttl_segment_duration
            /\ write_slot(born) = write_slot(clock)
            /\ contains(Observed)) => contains_in(slots', Observed)

C18_expire_spares_write_slot == [][C18_step]_vars

(* C19: with a clock that only moves forward and expire_as_of called at least once   *)
(* in every time bucket, a slot is empty at the first instant it is the write slot    *)
(* again after a wraparound; so a slot never holds items of two buffer cycles (what   *)
(* the write slot holds was inserted in the current bucket) and the wraparound        *)
(* itself carries over and drops nothing.                                             *)
C19_slots_empty_when_reused ==
    Built =>
        /\ (last.op = "tick" /\ (Elapsed % ttl_segment_duration) = 0) =>
              filter_len(slots[write_slot(clock)]) = 0
        /\ (born >= 0 /\ filter_contains(slots[write_slot(clock)], Observed)) =>
              /\ born <= clock
              /\ born >= clock - (Elapsed % ttl_segment_duration)

(* the clock has just reached the start of a bucket in the second buffer cycle, whose *)
(* slot is empty while the slot before it still holds the followed item               *)
C19_witness ==
    /\ Built
    /\ last.op = "tick"
    /\ (Elapsed % ttl_segment_duration) = 0
    /\ Elapsed >= buffer_duration
    /\ filter_len(slots[write_slot(clock)]) = 0
    /\ born >= 0
    /\ born >= self.created + buffer_duration - ttl_segment_duration
    /\ len > 0

(* C20: in every state reached by inserts, each bounded by the capacity of its slot, *)
(* and expire_as_of calls made at least once per expiration_period, len(), the sum    *)
(* over all slot_count slots, is at most capacity() =                                 *)
(* slots[0].capacity() * (slot_count - 1).                                            *)
C20_len_within_capacity == Built => len <= capacity

(* what the slots do bound: every one of the slot_count slots can be full at once *)
C20_len_within_slots ==
    Built =>
        /\ \A i \in DOMAIN slots : filter_len(slots[i]) <= slot_capacity
        /\ len <= slot_capacity * slot_count

====
